---- MODULE Spec2Model ----
(***************************************************************************)
(* pathfilter: filters that decide whether a path is ignored.               *)
(*                                                                         *)
(* Strings and paths are sequences of one-character strings.  A path is a   *)
(* sequence of bytes of the platform encoding; the bytes "xC3" and "xA9"    *)
(* are the two bytes of the UTF-8 encoding of one non-ASCII character, and  *)
(* either of them alone is not valid UTF-8.                                 *)
(***************************************************************************)
EXTENDS Naturals, Sequences, FiniteSets

VARIABLES
    filter,   \* the value the program holds: a filter, a Result, a Vec<PathFilter>
    given,    \* the arguments the constructors and builders were called with
    call,     \* the last ignore call: its kind, its path, the member it addressed
    ret       \* what the last ignore call returned

vars == <<filter, given, call, ret>>

-----------------------------------------------------------------------------
(* Bounds of the model.                                                    *)

MaxExtLen == 3      \* length of a string given to ExtensionFilter::new
MaxArgs == 2        \* strings given to ExtensionsFilter::new and with_extension together
MaxPathLen == 4     \* length of a path tested against an extension filter

ExtChars == {".", "r", "R"}
PathChars == {".", "/", "r", "R"}
ExtsPathChars == {".", "/", "r"}

RECURSIVE StrOver(_, _)
\* All strings over the characters cs of length at most n.
StrOver(cs, n) ==
    IF n = 0 THEN {<<>>}
    ELSE LET shorter == StrOver(cs, n - 1)
         IN  shorter \cup {Append(s, c) : s \in shorter, c \in cs}

RECURSIVE ListOver(_, _)
\* All lists of at most n elements of the set S.
ListOver(S, n) ==
    IF n = 0 THEN {<<>>}
    ELSE LET shorter == ListOver(S, n - 1)
         IN  shorter \cup {Append(l, x) : l \in shorter, x \in S}

\* The strings given to ExtensionFilter::new.
ExtStrings == StrOver(ExtChars, MaxExtLen)

\* The strings given to ExtensionsFilter::new and with_extension: the empty
\* string, a lone dot, plain, dotted, twice dotted and longer extensions.
ExtsStrings ==
    {<<>>, <<".">>, <<"r">>, <<".", "r">>, <<".", ".", "r">>, <<"r", "r">>}

ExtsLists == ListOver(ExtsStrings, MaxArgs)

\* The paths tested against an ExtensionFilter and against an ExtensionsFilter.
ExtPaths == StrOver(PathChars, MaxPathLen)
ExtsPaths == StrOver(ExtsPathChars, MaxPathLen)

-----------------------------------------------------------------------------
(* Option values.                                                          *)

None == [some |-> FALSE, value |-> <<>>]
Some(v) == [some |-> TRUE, value |-> v]

-----------------------------------------------------------------------------
(* std: str::trim_start_matches, Path::file_name, Path::extension, as the   *)
(* filters call them.                                                      *)

\* The mutant of trim_start_matches that strips one leading c only.
trim_start_matches_one(s, c) ==
    IF s # <<>> /\ Head(s) = c THEN Tail(s) ELSE s

RECURSIVE trim_start_matches(_, _)
\* s with every leading occurrence of the character c removed.
trim_start_matches(s, c) ==
    IF s # <<>> /\ Head(s) = c THEN trim_start_matches(Tail(s), c) ELSE s

\* The index of the last c in s, 0 when there is none.
LastIndexOf(s, c) ==
    LET at == {i \in 1..Len(s) : s[i] = c}
    IN  IF at = {} THEN 0 ELSE CHOOSE i \in at : \A j \in at : j <= i

RECURSIVE file_name(_)
\* The last component of the path when it is a normal one: empty components
\* and "." components are skipped, ".." and the root have no file name.
file_name(p) ==
    IF p = <<>> THEN None
    ELSE LET k == LastIndexOf(p, "/")
             last == SubSeq(p, k + 1, Len(p))
         IN  IF last = <<>> \/ last = <<".">>
             THEN IF k = 0 THEN None ELSE file_name(SubSeq(p, 1, k - 1))
             ELSE IF last = <<".", ".">> THEN None
             ELSE Some(last)

\* The part of the file name after its last dot; none when there is no file
\* name, no dot, or the only dot is the first character.
extension(p) ==
    LET f == file_name(p)
    IN  IF ~f.some THEN None
        ELSE LET k == LastIndexOf(f.value, ".")
             IN  IF k <= 1 THEN None
                 ELSE Some(SubSeq(f.value, k + 1, Len(f.value)))

-----------------------------------------------------------------------------
(* extension.rs                                                            *)

NoFilter == [tag |-> "None"]

\* The mutant of ExtensionFilter::new that keeps the string as given.
ExtensionFilter_new_verbatim(e) ==
    [tag |-> "ExtensionFilter", extension |-> e]

ExtensionFilter_new(e) ==
    [tag |-> "ExtensionFilter", extension |-> trim_start_matches(e, ".")]

\* The mutant of ExtensionFilter::ignore that ignores a path with no extension.
ExtensionFilter_ignore_default_true(f, p) ==
    LET ext == extension(p)
    IN  IF ext.some THEN ext.value = f.extension ELSE TRUE

ExtensionFilter_ignore(f, p) ==
    LET ext == extension(p)
    IN  IF ext.some THEN ext.value = f.extension ELSE FALSE

ExtensionsFilter_new(exts) ==
    [tag |-> "ExtensionsFilter",
     extensions |-> {trim_start_matches(exts[i], ".") : i \in 1..Len(exts)}]

\* The mutant of with_extension that inserts the string as given.
ExtensionsFilter_with_extension_verbatim(f, e) ==
    [f EXCEPT !.extensions = @ \cup {e}]

ExtensionsFilter_with_extension(f, e) ==
    [f EXCEPT !.extensions = @ \cup {trim_start_matches(e, ".")}]

\* The mutant of ExtensionsFilter::ignore that ignores a path with no extension
\* when the set holds the empty string.
ExtensionsFilter_ignore_no_ext_as_empty(f, p) ==
    LET ext == extension(p)
    IN  ext.value \in f.extensions

ExtensionsFilter_ignore(f, p) ==
    LET ext == extension(p)
    IN  IF ext.some THEN ext.value \in f.extensions ELSE FALSE

-----------------------------------------------------------------------------
(* A program that builds one extension filter and queries it.  The filters  *)
(* are immutable once built and ignore is pure: a run makes one query, a     *)
(* second one would reach no state the first does not.                      *)

NoCall == [op |-> "none", path |-> <<>>, idx |-> 0]
NoArgs == [by |-> "none", new |-> <<>>, added |-> <<>>]

InitExtension ==
    /\ filter = NoFilter
    /\ given = NoArgs
    /\ call = NoCall
    /\ ret = FALSE

\* let filter = ExtensionFilter::new(e);
NewExtensionFilter ==
    /\ filter = NoFilter
    /\ \E e \in ExtStrings :
            /\ filter' = ExtensionFilter_new(e)
            /\ given' = [by |-> "ExtensionFilter::new", new |-> <<e>>, added |-> <<>>]
            /\ UNCHANGED <<call, ret>>

\* let filter = ExtensionsFilter::new(exts);
NewExtensionsFilter ==
    /\ filter = NoFilter
    /\ \E exts \in ExtsLists :
            /\ filter' = ExtensionsFilter_new(exts)
            /\ given' = [by |-> "ExtensionsFilter::new", new |-> exts, added |-> <<>>]
            /\ UNCHANGED <<call, ret>>

\* let filter = filter.with_extension(e);
WithExtension ==
    /\ filter.tag = "ExtensionsFilter"
    /\ call.op = "none"
    /\ Len(given.new) + Len(given.added) < MaxArgs
    /\ \E e \in ExtsStrings :
            /\ filter' = ExtensionsFilter_with_extension(filter, e)
            /\ given' = [given EXCEPT !.added = Append(@, e)]
            /\ UNCHANGED <<call, ret>>

\* filter.ignore(p) on the ExtensionFilter
IgnoreExtension ==
    /\ filter.tag = "ExtensionFilter"
    /\ call.op = "none"
    /\ \E p \in ExtPaths :
            /\ call' = [op |-> "ExtensionFilter::ignore", path |-> p, idx |-> 0]
            /\ ret' = ExtensionFilter_ignore(filter, p)
            /\ UNCHANGED <<filter, given>>

\* filter.ignore(p) on the ExtensionsFilter
IgnoreExtensions ==
    /\ filter.tag = "ExtensionsFilter"
    /\ call.op = "none"
    /\ \E p \in ExtsPaths :
            /\ call' = [op |-> "ExtensionsFilter::ignore", path |-> p, idx |-> 0]
            /\ ret' = ExtensionsFilter_ignore(filter, p)
            /\ UNCHANGED <<filter, given>>

NextExtension ==
    \/ NewExtensionFilter
    \/ NewExtensionsFilter
    \/ WithExtension
    \/ IgnoreExtension
    \/ IgnoreExtensions

SpecExtension == InitExtension /\ [][NextExtension]_vars

\* Every string given to the filter so far: new's, then with_extension's.
AllGiven == given.new \o given.added

\* The string with one leading dot removed, if it has one.
StripOneDot(s) == IF s # <<>> /\ s[1] = "." THEN Tail(s) ELSE s

\* t is s without its leading dots: s is some dots followed by t, and t does
\* not begin with a dot.
IsDotTrimmed(s, t) ==
    \E k \in 0..Len(s) :
        /\ \A i \in 1..k : s[i] = "."
        /\ t = SubSeq(s, k + 1, Len(s))
        /\ (t = <<>> \/ t[1] # ".")

Reverse(s) == [i \in 1..Len(s) |-> s[Len(s) + 1 - i]]

\* C1 as stated: ExtensionsFilter::new(S).ignore(p) is true iff p has an
\* extension and it is in S with one leading dot removed from each element.
C1_IgnoreIffInOneDotNormalForm ==
    call.op = "ExtensionsFilter::ignore" =>
        ret = (/\ extension(call.path).some
               /\ \E i \in 1..Len(AllGiven) :
                      StripOneDot(AllGiven[i]) = extension(call.path).value)

\* C1 amended: ExtensionsFilter::new(S).ignore(p) is true iff p has an
\* extension and it is an element of S with all its leading dots removed; a
\* path with no extension is never ignored.
C1_IgnoreIffInNormalForm ==
    call.op = "ExtensionsFilter::ignore" =>
        /\ ret = (/\ extension(call.path).some
                  /\ \E i \in 1..Len(AllGiven) :
                         IsDotTrimmed(AllGiven[i], extension(call.path).value))
        /\ (~extension(call.path).some => ret = FALSE)

\* An ExtensionsFilter built from a dotted string ignored a path with that extension.
C1_Witness ==
    /\ call.op = "ExtensionsFilter::ignore"
    /\ given.new = << <<".", "r">>, <<>> >>
    /\ call.path = <<"r", ".", "r">>
    /\ ret = TRUE

\* C2: ExtensionFilter::ignore(p) is true iff p has an extension and it equals
\* the stored extension character for character; a path with no extension is
\* never ignored, also when the stored extension is empty.
C2_ExtensionFilterMatchRule ==
    call.op = "ExtensionFilter::ignore" =>
        /\ ret = (/\ extension(call.path).some
                  /\ Len(extension(call.path).value) = Len(filter.extension)
                  /\ \A i \in 1..Len(filter.extension) :
                         extension(call.path).value[i] = filter.extension[i])
        /\ (~extension(call.path).some => ret = FALSE)

\* A filter with the empty extension was asked about a path with no extension.
C2_Witness ==
    /\ call.op = "ExtensionFilter::ignore"
    /\ filter.extension = <<>>
    /\ ~extension(call.path).some
    /\ call.path = <<"r", "/", ".", "r">>
    /\ ret = FALSE

\* C3: ExtensionFilter::new(e) and ExtensionFilter::new("." + e) store the same
\* extension and give the same decision for every path, for every e.
C3_LeadingDotEquivalent ==
    filter.tag = "ExtensionFilter" =>
        LET dotted == ExtensionFilter_new(<<".">> \o given.new[1])
        IN  /\ dotted.extension = filter.extension
            /\ (call.op = "ExtensionFilter::ignore" =>
                    ExtensionFilter_ignore(dotted, call.path) = ret)

\* The filter was built from a string that itself begins with a dot, and ignored a path.
C3_Witness ==
    /\ call.op = "ExtensionFilter::ignore"
    /\ given.new = << <<".", "r">> >>
    /\ ret = TRUE

\* C4: a filter built by new(S) and then with_extension(e1) .. with_extension(en)
\* equals ExtensionsFilter::new(S followed by e1..en), in whatever order the
\* strings are given, and gives the same decision for every path.
C4_IncrementalEqualsAtOnce ==
    filter.tag = "ExtensionsFilter" =>
        /\ filter = ExtensionsFilter_new(AllGiven)
        /\ filter = ExtensionsFilter_new(Reverse(AllGiven))
        /\ (call.op = "ExtensionsFilter::ignore" =>
                ret = ExtensionsFilter_ignore(ExtensionsFilter_new(AllGiven), call.path))

\* new([]) followed by with_extension(".r") ignored a path with the extension r.
C4_Witness ==
    /\ call.op = "ExtensionsFilter::ignore"
    /\ given.new = <<>>
    /\ given.added = << <<".", "r">> >>
    /\ ret = TRUE

\* C10 as stated: every string is stored with at most one leading dot removed
\* and everything else, further leading dots included, kept.
C10_StoredWithOneDotRemoved ==
    /\ filter.tag = "ExtensionFilter" =>
           filter.extension = StripOneDot(given.new[1])
    /\ filter.tag = "ExtensionsFilter" =>
           filter.extensions = {StripOneDot(AllGiven[i]) : i \in 1..Len(AllGiven)}

\* C10 amended: every string given to ExtensionFilter::new, ExtensionsFilter::new
\* and with_extension is stored with all its leading dots removed and every
\* other character, letter case included, kept.
C10_StoredWithLeadingDotsRemoved ==
    /\ filter.tag = "ExtensionFilter" =>
           IsDotTrimmed(given.new[1], filter.extension)
    /\ filter.tag = "ExtensionsFilter" =>
           /\ \A i \in 1..Len(AllGiven) :
                  \E t \in filter.extensions : IsDotTrimmed(AllGiven[i], t)
           /\ \A t \in filter.extensions :
                  \E i \in 1..Len(AllGiven) : IsDotTrimmed(AllGiven[i], t)

\* ExtensionFilter::new was given a string with two leading dots and an
\* upper-case letter.
C10_Witness ==
    /\ filter.tag = "ExtensionFilter"
    /\ given.new = << <<".", ".", "R">> >>
    /\ filter.extension = <<"R">>

-----------------------------------------------------------------------------
(* The regex engine, as regex.rs uses it: Regex::new and Regex::is_match,  *)
(* for patterns of literals, ".", "^", "$" and groups.                     *)

MaxPatLen == 3         \* length of a pattern
MaxRegexPathLen == 3   \* length, in bytes, of a path tested against a RegexFilter

PatChars == {"^", "$", ".", "/", "(", ")"}
RegexPathBytes == {"s", "/", "xC3", "xA9"}

Patterns == StrOver(PatChars, MaxPatLen)
RegexPaths == StrOver(RegexPathBytes, MaxRegexPathLen)

Ok(v) == [tag |-> "Ok", value |-> v, error |-> ""]
Err(e) == [tag |-> "Err", value |-> NoFilter, error |-> e]

RECURSIVE ParseGroups(_, _, _)
\* The pattern from its i-th character on, read at group depth d: the
\* program (the pattern without its parentheses) or the parse error.
ParseGroups(pat, i, d) ==
    IF i > Len(pat)
    THEN IF d > 0 THEN Err("unclosed group") ELSE Ok(<<>>)
    ELSE IF pat[i] = "("
         THEN ParseGroups(pat, i + 1, d + 1)
         ELSE IF pat[i] = ")"
              THEN IF d = 0 THEN Err("unopened group")
                   ELSE ParseGroups(pat, i + 1, d - 1)
              ELSE LET rest == ParseGroups(pat, i + 1, d)
                   IN  IF rest.tag = "Err" THEN rest
                       ELSE Ok(<<pat[i]>> \o rest.value)

\* regex::Regex::new
Regex_new(pat) ==
    LET parsed == ParseGroups(pat, 1, 0)
    IN  IF parsed.tag = "Err" THEN parsed
        ELSE Ok([source |-> pat, prog |-> parsed.value])

RECURSIVE MatchHere(_, _, _, _)
\* Whether the program from its i-th instruction on matches the text at the
\* position after its pos-th character.
MatchHere(prog, i, text, pos) ==
    IF i > Len(prog) THEN TRUE
    ELSE IF prog[i] = "^" THEN pos = 0 /\ MatchHere(prog, i + 1, text, pos)
    ELSE IF prog[i] = "$" THEN pos = Len(text) /\ MatchHere(prog, i + 1, text, pos)
    ELSE IF prog[i] = "."
         THEN pos < Len(text) /\ MatchHere(prog, i + 1, text, pos + 1)
    ELSE /\ pos < Len(text)
         /\ text[pos + 1] = prog[i]
         /\ MatchHere(prog, i + 1, text, pos + 1)

\* regex::Regex::is_match: a match starting anywhere in the text.
is_match(regex, text) ==
    \E pos \in 0..Len(text) : MatchHere(regex.prog, 1, text, pos)

RECURSIVE to_string_lossy(_)
\* Path::to_string_lossy: the characters of the path, each byte that is not
\* part of a valid UTF-8 sequence replaced by U+FFFD.
to_string_lossy(p) ==
    IF p = <<>> THEN <<>>
    ELSE IF Len(p) >= 2 /\ p[1] = "xC3" /\ p[2] = "xA9"
         THEN <<"e'">> \o to_string_lossy(SubSeq(p, 3, Len(p)))
    ELSE IF p[1] \in {"xC3", "xA9"}
         THEN <<"uFFFD">> \o to_string_lossy(Tail(p))
    ELSE <<p[1]>> \o to_string_lossy(Tail(p))

RECURSIVE to_str(_)
\* Path::to_str: the characters of the path when its bytes are valid UTF-8.
to_str(p) ==
    IF p = <<>> THEN Some(<<>>)
    ELSE IF Len(p) >= 2 /\ p[1] = "xC3" /\ p[2] = "xA9"
         THEN LET rest == to_str(SubSeq(p, 3, Len(p)))
              IN  IF rest.some THEN Some(<<"e'">> \o rest.value) ELSE None
    ELSE IF p[1] \in {"xC3", "xA9"} THEN None
    ELSE LET rest == to_str(Tail(p))
         IN  IF rest.some THEN Some(<<p[1]>> \o rest.value) ELSE None

-----------------------------------------------------------------------------
(* regex.rs                                                                *)

RegexFilter_new(regex) == [tag |-> "RegexFilter", regex |-> regex]

\* The mutant of new_str that falls back to the empty pattern on an error.
RegexFilter_new_str_or_default(pattern) ==
    LET regex == Regex_new(pattern)
    IN  IF regex.tag = "Err" THEN Ok(RegexFilter_new(Regex_new(<<>>).value))
        ELSE Ok([tag |-> "RegexFilter", regex |-> regex.value])

RegexFilter_new_str(pattern) ==
    LET regex == Regex_new(pattern)
    IN  IF regex.tag = "Err" THEN Err(regex.error)
        ELSE Ok([tag |-> "RegexFilter", regex |-> regex.value])

RegexFilter_from_str(s) ==
    LET regex == Regex_new(s)
    IN  IF regex.tag = "Err" THEN Err(regex.error)
        ELSE Ok(RegexFilter_new(regex.value))

\* The mutant of RegexFilter::ignore that matches the lossy string form.
RegexFilter_ignore_lossy(f, p) ==
    is_match(f.regex, to_string_lossy(p))

RegexFilter_ignore(f, p) ==
    LET s == to_str(p)
    IN  IF s.some THEN is_match(f.regex, s.value) ELSE FALSE

-----------------------------------------------------------------------------
(* A program that builds one regex filter, from text or from a compiled     *)
(* regex, and queries it once.                                             *)

InitRegex ==
    /\ filter = NoFilter
    /\ given = NoArgs
    /\ call = NoCall
    /\ ret = FALSE

\* let filter = RegexFilter::new_str(pattern);
NewStr ==
    /\ filter = NoFilter
    /\ \E pattern \in Patterns :
            /\ filter' = RegexFilter_new_str(pattern)
            /\ given' = [by |-> "RegexFilter::new_str", new |-> <<pattern>>, added |-> <<>>]
            /\ UNCHANGED <<call, ret>>

\* let filter = pattern.parse::<RegexFilter>();
FromStr ==
    /\ filter = NoFilter
    /\ \E pattern \in Patterns :
            /\ filter' = RegexFilter_from_str(pattern)
            /\ given' = [by |-> "RegexFilter::from_str", new |-> <<pattern>>, added |-> <<>>]
            /\ UNCHANGED <<call, ret>>

\* let filter = RegexFilter::new(Regex::new(pattern).unwrap());
NewRegex ==
    /\ filter = NoFilter
    /\ \E pattern \in Patterns :
            /\ Regex_new(pattern).tag = "Ok"
            /\ filter' = Ok(RegexFilter_new(Regex_new(pattern).value))
            /\ given' = [by |-> "RegexFilter::new", new |-> <<pattern>>, added |-> <<>>]
            /\ UNCHANGED <<call, ret>>

\* filter.unwrap().ignore(p)
IgnoreRegex ==
    /\ filter.tag = "Ok"
    /\ call.op = "none"
    /\ \E p \in RegexPaths :
            /\ call' = [op |-> "RegexFilter::ignore", path |-> p, idx |-> 0]
            /\ ret' = RegexFilter_ignore(filter.value, p)
            /\ UNCHANGED <<filter, given>>

NextRegex ==
    \/ NewStr
    \/ FromStr
    \/ NewRegex
    \/ IgnoreRegex

SpecRegex == InitRegex /\ [][NextRegex]_vars

\* C5: RegexFilter::ignore(p) is the engine's is_match on the string form of
\* p when p is valid UTF-8, and false when it is not; it is always a boolean.
C5_IgnoreIsEngineMatchOnText ==
    call.op = "RegexFilter::ignore" =>
        /\ ret \in BOOLEAN
        /\ to_str(call.path).some =>
               ret = is_match(Regex_new(given.new[1]).value, to_str(call.path).value)
        /\ ~to_str(call.path).some => ret = FALSE

\* A filter whose pattern matches any one character was asked about a path
\* that is one byte of a two-byte sequence: not text, so not ignored.
C5_Witness ==
    /\ call.op = "RegexFilter::ignore"
    /\ given.new = << <<".">> >>
    /\ call.path = <<"xC3">>
    /\ ret = FALSE

\* The unanchored pattern "/" matched the path "s/s" at its separator.
C5_WitnessMatch ==
    /\ call.op = "RegexFilter::ignore"
    /\ given.new = << <<"/">> >>
    /\ call.path = <<"s", "/", "s">>
    /\ ret = TRUE

\* C6: new_str and from_str return the engine's error, and no filter, for a
\* pattern the engine rejects, and a filter for a pattern it accepts.
C6_CompileErrorPropagates ==
    given.by \in {"RegexFilter::new_str", "RegexFilter::from_str"} =>
        LET engine == Regex_new(given.new[1])
        IN  /\ engine.tag = "Err" =>
                /\ filter.tag = "Err"
                /\ filter.error = engine.error
                /\ filter.value = NoFilter
            /\ engine.tag = "Ok" =>
                /\ filter.tag = "Ok"
                /\ filter.value.tag = "RegexFilter"
                /\ filter.value.regex = engine.value

\* new_str was given a pattern with an unclosed group and returned the error.
C6_Witness ==
    /\ given.by = "RegexFilter::new_str"
    /\ given.new = << <<"(", "/">> >>
    /\ filter.tag = "Err"
    /\ filter.error = "unclosed group"

-----------------------------------------------------------------------------
(* lib.rs                                                                  *)

MaxFilters == 2    \* length of the Vec<PathFilter>

\* From<ExtensionFilter>, From<ExtensionsFilter>, From<RegexFilter> for PathFilter
PathFilter_from(value) ==
    IF value.tag = "ExtensionFilter" THEN [tag |-> "Extension", inner |-> value]
    ELSE IF value.tag = "ExtensionsFilter" THEN [tag |-> "Extensions", inner |-> value]
    ELSE [tag |-> "Regex", inner |-> value]

PathFilter_new_extension(e) == PathFilter_from(ExtensionFilter_new(e))

PathFilter_new_extensions(exts) == PathFilter_from(ExtensionsFilter_new(exts))

PathFilter_new_regex(regex) == PathFilter_from(RegexFilter_new(regex))

\* The mutant of PathFilter::ignore whose Extensions arm asks an
\* ExtensionFilter for the first extension of the set only.
PathFilter_ignore_one_of_set(f, p) ==
    IF f.tag = "Extension" THEN ExtensionFilter_ignore(f.inner, p)
    ELSE IF f.tag = "Extensions"
         THEN /\ f.inner.extensions # {}
              /\ ExtensionFilter_ignore(
                     [tag |-> "ExtensionFilter",
                      extension |-> CHOOSE x \in f.inner.extensions : TRUE], p)
    ELSE RegexFilter_ignore(f.inner, p)

PathFilter_ignore(f, p) ==
    IF f.tag = "Extension" THEN ExtensionFilter_ignore(f.inner, p)
    ELSE IF f.tag = "Extensions" THEN ExtensionsFilter_ignore(f.inner, p)
    ELSE RegexFilter_ignore(f.inner, p)

\* The mutant of the collection's ignore that uses all in place of any.
Slice_ignore_all(fs, p) ==
    \A i \in 1..Len(fs) : PathFilter_ignore(fs[i], p)

\* The mutant of the collection's ignore that returns the first member's decision.
Slice_ignore_first(fs, p) ==
    IF fs = <<>> THEN FALSE ELSE PathFilter_ignore(fs[1], p)

RECURSIVE Slice_ignore(_, _)
\* impl<T: AsRef<[PathFilter]>> IgnorePath for T: iter().any(), which stops
\* at the first member that ignores the path.
Slice_ignore(fs, p) ==
    IF fs = <<>> THEN FALSE
    ELSE IF PathFilter_ignore(fs[1], p) THEN TRUE
    ELSE Slice_ignore(Tail(fs), p)

-----------------------------------------------------------------------------
(* A program that collects PathFilters in a Vec and queries the Vec or one  *)
(* of its members once.                                                    *)

\* Arguments of the constructors: ".cs" and "rs"; [] and [".rs", ".txt"];
\* "^s/l.rs$" and "cs".
VecExts == {<<".", "c", "s">>, <<"r", "s">>}
VecExtLists == {<<>>, << <<".", "r", "s">>, <<".", "t", "x", "t">> >>}
VecPatterns == {<<"^", "s", "/", "l", ".", "r", "s", "$">>, <<"c", "s">>}

\* Paths: s/l.rs, s/m.rs, s/m.cpp, t.cs, s/lxrs, s/P.txt, and s/<xC3>.cs,
\* which is not valid UTF-8.
VecPaths ==
    {<<"s", "/", "l", ".", "r", "s">>,
     <<"s", "/", "m", ".", "r", "s">>,
     <<"s", "/", "m", ".", "c", "p", "p">>,
     <<"t", ".", "c", "s">>,
     <<"s", "/", "l", "x", "r", "s">>,
     <<"s", "/", "P", ".", "t", "x", "t">>,
     <<"s", "/", "xC3", ".", "c", "s">>}

InitVec ==
    /\ filter = <<>>
    /\ given = [by |-> "vec!", new |-> <<>>, added |-> <<>>]
    /\ call = NoCall
    /\ ret = FALSE

Push(f, by, arg) ==
    /\ filter' = Append(filter, f)
    /\ given' = [given EXCEPT !.new = Append(@, [by |-> by, arg |-> arg])]
    /\ UNCHANGED <<call, ret>>

CanPush == Len(filter) < MaxFilters /\ call.op = "none"

\* filters.push(PathFilter::new_extension(e));
PushNewExtension ==
    /\ CanPush
    /\ \E e \in VecExts :
            Push(PathFilter_new_extension(e), "PathFilter::new_extension", e)

\* filters.push(PathFilter::new_extensions(exts));
PushNewExtensions ==
    /\ CanPush
    /\ \E exts \in VecExtLists :
            Push(PathFilter_new_extensions(exts), "PathFilter::new_extensions", exts)

\* filters.push(PathFilter::new_regex(Regex::new(pattern).unwrap()));
PushNewRegex ==
    /\ CanPush
    /\ \E pattern \in VecPatterns :
            /\ Regex_new(pattern).tag = "Ok"
            /\ Push(PathFilter_new_regex(Regex_new(pattern).value),
                    "PathFilter::new_regex", Regex_new(pattern).value)

\* filters.push(ExtensionFilter::new(e).into());
PushFromExtensionFilter ==
    /\ CanPush
    /\ \E e \in VecExts :
            Push(PathFilter_from(ExtensionFilter_new(e)),
                 "PathFilter::from", ExtensionFilter_new(e))

\* filters.push(ExtensionsFilter::new(exts).into());
PushFromExtensionsFilter ==
    /\ CanPush
    /\ \E exts \in VecExtLists :
            Push(PathFilter_from(ExtensionsFilter_new(exts)),
                 "PathFilter::from", ExtensionsFilter_new(exts))

\* filters.push(RegexFilter::new(Regex::new(pattern).unwrap()).into());
PushFromRegexFilter ==
    /\ CanPush
    /\ \E pattern \in VecPatterns :
            /\ Regex_new(pattern).tag = "Ok"
            /\ Push(PathFilter_from(RegexFilter_new(Regex_new(pattern).value)),
                    "PathFilter::from", RegexFilter_new(Regex_new(pattern).value))

\* filters.ignore(p)
IgnoreVec ==
    /\ call.op = "none"
    /\ \E p \in VecPaths :
            /\ call' = [op |-> "Vec::ignore", path |-> p, idx |-> 0]
            /\ ret' = Slice_ignore(filter, p)
            /\ UNCHANGED <<filter, given>>

\* filters[i].ignore(p)
IgnoreMember ==
    /\ call.op = "none"
    /\ \E i \in 1..Len(filter), p \in VecPaths :
            /\ call' = [op |-> "PathFilter::ignore", path |-> p, idx |-> i]
            /\ ret' = PathFilter_ignore(filter[i], p)
            /\ UNCHANGED <<filter, given>>

NextVec ==
    \/ PushNewExtension
    \/ PushNewExtensions
    \/ PushNewRegex
    \/ PushFromExtensionFilter
    \/ PushFromExtensionsFilter
    \/ PushFromRegexFilter
    \/ IgnoreVec
    \/ IgnoreMember

SpecVec == InitVec /\ [][NextVec]_vars

\* The filters of fs in the order the permutation perm gives.
Permuted(fs, perm) == [i \in 1..Len(fs) |-> fs[perm[i]]]

Permutations(n) ==
    {perm \in [1..n -> 1..n] : \A i, j \in 1..n : perm[i] = perm[j] => i = j}

\* The decision of a concrete filter, by its own type's ignore.
ConcreteIgnore(f, p) ==
    IF f.tag = "ExtensionFilter" THEN ExtensionFilter_ignore(f, p)
    ELSE IF f.tag = "ExtensionsFilter" THEN ExtensionsFilter_ignore(f, p)
    ELSE RegexFilter_ignore(f, p)

\* The concrete filter and the variant the i-th member was built to hold.
MadeFilter(i) ==
    LET made == given.new[i]
    IN  IF made.by = "PathFilter::new_extension" THEN ExtensionFilter_new(made.arg)
        ELSE IF made.by = "PathFilter::new_extensions" THEN ExtensionsFilter_new(made.arg)
        ELSE IF made.by = "PathFilter::new_regex" THEN RegexFilter_new(made.arg)
        ELSE made.arg

MadeVariant(i) ==
    LET f == MadeFilter(i)
    IN  IF f.tag = "ExtensionFilter" THEN "Extension"
        ELSE IF f.tag = "ExtensionsFilter" THEN "Extensions"
        ELSE "Regex"

\* C7: a collection of PathFilters ignores a path iff at least one member
\* does; the empty collection ignores no path.
C7_CollectionIsAny ==
    call.op = "Vec::ignore" =>
        /\ ret = (\E i \in 1..Len(filter) : PathFilter_ignore(filter[i], call.path))
        /\ (filter = <<>> => ret = FALSE)

\* A regex filter that does not match followed by an extension filter that does.
C7_Witness ==
    /\ call.op = "Vec::ignore"
    /\ Len(filter) = 2
    /\ filter[1].tag = "Regex"
    /\ filter[2].tag = "Extension"
    /\ ~PathFilter_ignore(filter[1], call.path)
    /\ PathFilter_ignore(filter[2], call.path)
    /\ ret = TRUE

\* C8: every permutation of the collection gives the decision the collection gave.
C8_CollectionCommutative ==
    call.op = "Vec::ignore" =>
        \A perm \in Permutations(Len(filter)) :
            Slice_ignore(Permuted(filter, perm), call.path) = ret

\* The first member ignores the path and the second does not: any() stopped
\* at the first, and the reversed collection has to reach its second.
C8_Witness ==
    /\ call.op = "Vec::ignore"
    /\ Len(filter) = 2
    /\ PathFilter_ignore(filter[1], call.path)
    /\ ~PathFilter_ignore(filter[2], call.path)
    /\ ret = TRUE

\* C9: each member holds the variant of its concrete filter's kind, wrapping
\* the filter the concrete constructor gives, and decides as that filter does.
C9_UnionDelegatesToVariant ==
    /\ Len(given.new) = Len(filter)
    /\ \A i \in 1..Len(filter) :
           /\ filter[i].tag = MadeVariant(i)
           /\ filter[i].inner = MadeFilter(i)
    /\ call.op = "PathFilter::ignore" =>
           ret = ConcreteIgnore(MadeFilter(call.idx), call.path)

\* A member built by new_extensions from [".rs", ".txt"] ignored s/P.txt.
C9_Witness ==
    /\ call.op = "PathFilter::ignore"
    /\ given.new[call.idx].by = "PathFilter::new_extensions"
    /\ filter[call.idx].tag = "Extensions"
    /\ call.path = <<"s", "/", "P", ".", "t", "x", "t">>
    /\ ret = TRUE

====
